---------------------------- MODULE Spec2Model ----------------------------
(***************************************************************************)
(* Model of catalyst's Neptune logger (catalyst/loggers/neptune.py) and of *)
(* the provenance helpers of catalyst/utils/sys.py.                        *)
(*                                                                         *)
(* A Python str is a sequence of one-character strings, so that            *)
(* startswith, endswith, slicing, concatenation and formatting are         *)
(* computed on characters.  A Python dict is a sequence of <<key, value>>  *)
(* pairs in insertion order, keys distinct.                                *)
(***************************************************************************)
EXTENDS Integers, Sequences, FiniteSets, TLC

VARIABLES
    \* ---- _prepare_metrics applied to a batch, then to its own output
    metrics,            \* the input batch
    pm_pc,              \* "input" | "once" | "twice"
    res1,               \* outcome of _prepare_metrics(metrics)
    res2,               \* outcome of _prepare_metrics(res1.out)
    \* ---- NeptuneLogger
    log_batch_metrics,  \* toggle set by __init__
    log_epoch_metrics,  \* toggle set by __init__
    base_namespace,     \* set by __init__
    call,               \* the latest call: its arguments and how it ended
    sent,               \* backend operations issued by the latest call, in order
    first,              \* the call before the latest, when two calls are compared
    \* ---- _get_environment_vars
    probe,              \* the host probed, and the snapshot returned
    \* ---- dump_environment
    config_dir,         \* <logdir>/configs: file name -> content
    env_call,           \* the latest dump_environment call
    \* ---- dump_code
    code_dir,           \* <logdir>/code: entry name -> what it holds
    code_call           \* the latest dump_code call

pmVars   == <<metrics, pm_pc, res1, res2>>
lgVars   == <<log_batch_metrics, log_epoch_metrics, base_namespace, call, sent>>
envVars  == <<probe, config_dir, env_call>>
codeVars == <<code_dir, code_call>>
cmpVars  == <<first>>
vars     == <<pmVars, lgVars, envVars, codeVars, cmpVars>>

-----------------------------------------------------------------------------
(* Python str operations on character sequences *)

\* j.startswith(k)
StartsWith(j, k) == Len(k) <= Len(j) /\ SubSeq(j, 1, Len(k)) = k

\* k.endswith(suf)
EndsWith(k, suf) ==
    Len(suf) <= Len(k) /\ SubSeq(k, Len(k) - Len(suf) + 1, Len(k)) = suf

SufStd    == <<"/", "s", "t", "d">>
SufVal    == <<"/", "v", "a", "l">>
SufUndVal == <<"_", "v", "a", "l">>

-----------------------------------------------------------------------------
(* Python dict operations on insertion-ordered sequences of pairs *)

KeySeq(d)  == [i \in 1..Len(d) |-> d[i][1]]
KeysOf(d)  == {d[i][1] : i \in 1..Len(d)}
HasKey(d, k) == k \in KeysOf(d)
Get(d, k)  == d[CHOOSE i \in 1..Len(d) : d[i][1] = k][2]
\* d with the entry of k removed (dict.pop's effect on d, k present)
Without(d, k) == SelectSeq(d, LAMBDA e : e[1] # k)
\* d[k] = v: an existing key keeps its position, a new key goes last
SetItem(d, k, v) ==
    IF HasKey(d, k)
    THEN [i \in 1..Len(d) |-> IF d[i][1] = k THEN <<k, v>> ELSE d[i]]
    ELSE Append(d, <<k, v>>)
\* the dict as a mapping, order forgotten
AsMap(d) == {<<d[i][1], d[i][2]>> : i \in 1..Len(d)}

-----------------------------------------------------------------------------
(* _prepare_metrics *)

\* first loop: over a snapshot ks of the keys, pair each k/std with k/val
RECURSIVE StdValPass(_, _)
StdValPass(ks, d) ==
    IF ks = <<>> THEN [exc |-> "none", out |-> d]
    ELSE LET k == Head(ks) IN
         IF EndsWith(k, SufStd)
         THEN LET k_stripped == SubSeq(k, 1, Len(k) - 4)
                  k_val      == k_stripped \o SufVal
              IN  IF ~HasKey(d, k_val)
                  THEN IF HasKey(d, k_stripped)
                       THEN StdValPass(Tail(ks),
                                SetItem(Without(d, k_stripped), k_val,
                                        Get(d, k_stripped)))
                       ELSE [exc |-> "KeyError", out |-> <<>>]
                  ELSE StdValPass(Tail(ks), d)
         ELSE StdValPass(Tail(ks), d)

\* second loop: the keys, in dict order, that are a proper prefix of another key
ConflictKeys(d) ==
    SelectSeq(KeySeq(d),
              LAMBDA k : \E j \in KeysOf(d) : StartsWith(j, k) /\ j # k)

\* third loop: rename every conflict key i to i_val
RECURSIVE RenameConflicts(_, _)
RenameConflicts(cks, d) ==
    IF cks = <<>> THEN d
    ELSE LET i == Head(cks) IN
         RenameConflicts(Tail(cks),
             SetItem(Without(d, i), i \o SufUndVal, Get(d, i)))

PrepareMetrics(m) ==
    LET p == StdValPass(KeySeq(m), m) IN
    IF p.exc # "none" THEN p
    ELSE [exc |-> "none", out |-> RenameConflicts(ConflictKeys(p.out), p.out)]


-----------------------------------------------------------------------------
(* Metric batches fed to _prepare_metrics *)

\* most entries a batch holds
MaxKeys == 3

\* metric names: "a", "b", "a/std", "a/val", "a_val", "a/b", "a_val/b", "a/val/b"
MetricKeys ==
    { <<"a">>, <<"b">>,
      <<"a", "/", "s", "t", "d">>,
      <<"a", "/", "v", "a", "l">>,
      <<"a", "_", "v", "a", "l">>,
      <<"a", "/", "b">>,
      <<"a", "_", "v", "a", "l", "/", "b">>,
      <<"a", "/", "v", "a", "l", "/", "b">> }

\* metric values
MetricValues == {1, 2}

\* every dict of at most MaxKeys entries, in every insertion order
Batches ==
    UNION { { d \in [1..n -> MetricKeys \X MetricValues] :
                \A i, j \in 1..n : i # j => d[i][1] # d[j][1] } : n \in 0..MaxKeys }

NoResult == [exc |-> "none", out |-> <<>>]

PrepareIdle ==
    /\ metrics = <<>>
    /\ pm_pc = "idle"
    /\ res1 = NoResult
    /\ res2 = NoResult

PrepareStart ==
    /\ metrics \in Batches
    /\ pm_pc = "input"
    /\ res1 = NoResult
    /\ res2 = NoResult

\* processed = _prepare_metrics(metrics)
PrepareOnce ==
    /\ pm_pc = "input"
    /\ res1' = PrepareMetrics(metrics)
    /\ pm_pc' = "once"
    /\ UNCHANGED <<metrics, res2>>

\* _prepare_metrics(processed), when the first application returned
PrepareTwice ==
    /\ pm_pc = "once"
    /\ res1.exc = "none"
    /\ res2' = PrepareMetrics(res1.out)
    /\ pm_pc' = "twice"
    /\ UNCHANGED <<metrics, res1>>

NextPrepare ==
    \/ PrepareOnce /\ UNCHANGED <<lgVars, envVars, codeVars, cmpVars>>
    \/ PrepareTwice /\ UNCHANGED <<lgVars, envVars, codeVars, cmpVars>>

-----------------------------------------------------------------------------
(* str.join and the format spec {n:04d} *)

\* "/".join(segs)
RECURSIVE Join(_)
Join(segs) ==
    IF segs = <<>> THEN <<>>
    ELSE IF Len(segs) = 1 THEN segs[1]
    ELSE segs[1] \o <<"/">> \o Join(Tail(segs))

DigitChar(d) == <<"0", "1", "2", "3", "4", "5", "6", "7", "8", "9">>[d + 1]

\* the decimal digits of a natural number
RECURSIVE Digits(_)
Digits(n) ==
    IF n < 10 THEN <<DigitChar(n)>>
    ELSE Digits(n \div 10) \o <<DigitChar(n % 10)>>

\* a faulty Fmt04d: the digits as they are, no padding
Fmt04dUnpadded(n) == Digits(n)

\* f"{n:04d}" for n >= 0: zero-padded on the left to a minimum width of 4
Fmt04d(n) ==
    LET ds == Digits(n) IN
    IF Len(ds) >= 4 THEN ds ELSE [i \in 1..(4 - Len(ds)) |-> "0"] \o ds

-----------------------------------------------------------------------------
(* NeptuneLogger *)

StrExperiment == <<"e", "x", "p", "e", "r", "i", "m", "e", "n", "t">>
StrArtifacts  == <<"_", "a", "r", "t", "i", "f", "a", "c", "t", "s">>
StrImages     == <<"_", "i", "m", "a", "g", "e", "s">>
StrEpochDash  == <<"e", "p", "o", "c", "h", "-">>
StrLoaderDash == <<"l", "o", "a", "d", "e", "r", "-">>
StrBatchDash  == <<"b", "a", "t", "c", "h", "-">>
StrEpochKey   == <<"_", "e", "p", "o", "c", "h", "_">>

\* the scope argument as the characters log_metrics joins into its path
ScopeStr(scope) ==
    CASE scope = "batch"  -> <<"b", "a", "t", "c", "h">>
      [] scope = "loader" -> <<"l", "o", "a", "d", "e", "r">>
      [] scope = "epoch"  -> <<"e", "p", "o", "c", "h">>
      [] OTHER            -> <<>>

\* scope arguments: the four scopes, None, and a value that is none of them
Scopes == {"batch", "loader", "epoch", "experiment", "None", "step"}

\* the runner attributes the logger reads
Runners ==
    { [epoch_step |-> 3,  loader_key |-> <<"t", "r", "a", "i", "n">>,
       batch_step |-> 7,  sample_step |-> 224],
      [epoch_step |-> 12, loader_key |-> <<"v", "a", "l", "i", "d">>,
       batch_step |-> 0,  sample_step |-> 0] }

Tags == { <<"s", "a", "m", "p", "l", "e">> }

\* metric dicts handed to log_metrics at batch, loader and experiment scope:
\* {}, {a}, {a, b}, {a/std, a}, {a, a/b}, {a/std}
LoggedBatches ==
    { <<>>,
      << <<(<<"a">>), 1>> >>,
      << <<(<<"a">>), 1>>, <<(<<"b">>), 2>> >>,
      << <<(<<"a", "/", "s", "t", "d">>), 1>>, <<(<<"a">>), 2>> >>,
      << <<(<<"a">>), 2>>, <<(<<"a", "/", "b">>), 1>> >>,
      << <<(<<"a", "/", "s", "t", "d">>), 1>> >> }

\* the argument log_metrics gets for a scope: at epoch scope the runner hands
\* over the per-loader dict {"_epoch_": batch}, elsewhere the batch itself
MetricsArgs(scope) ==
    IF scope = "epoch"
    THEN { << <<StrEpochKey, b>> >> : b \in LoggedBatches }
    ELSE LoggedBatches

NoCall ==
    [op |-> "none", scope |-> "None", exc |-> "none", runner |-> <<>>,
     metrics |-> <<>>, tag |-> <<>>, artifact |-> "None",
     path_to_artifact |-> "None"]

\* NeptuneLogger._log_metrics: one append per item, in dict order
LogMetricsOps(m, neptune_path, step) ==
    [i \in 1..Len(m) |->
        [op |-> "append", path |-> neptune_path, key |-> m[i][1],
         value |-> m[i][2], step |-> step]]

\* NeptuneLogger._log_image
LogImageOps(image, neptune_path) ==
    << [op |-> "append_image", path |-> neptune_path, image |-> image] >>

\* NeptuneLogger._log_artifact
LogArtifactOps(artifact, path_to_artifact, neptune_path) ==
    IF artifact # "None"
    THEN << [op |-> "upload", path |-> neptune_path, file |-> <<"pickle", artifact>>] >>
    ELSE IF path_to_artifact # "None"
    THEN << [op |-> "upload", path |-> neptune_path, file |-> <<"path", path_to_artifact>>] >>
    ELSE <<>>

\* a faulty LogMetricsBatchGate: batch metrics are logged whatever the toggle
LogMetricsBatchGateIgnored == TRUE
\* the toggle log_metrics tests at batch scope
LogMetricsBatchGate == log_batch_metrics

\* what NeptuneLogger.log_metrics does: [exc, ops]
LogMetricsResult(m, scope, runner) ==
    IF scope = "batch" /\ LogMetricsBatchGate
    THEN [exc |-> "none",
          ops |-> LogMetricsOps(m, Join(<<base_namespace, runner.loader_key, ScopeStr(scope)>>),
                                runner.sample_step)]
    ELSE IF scope = "loader" /\ log_epoch_metrics
    THEN LET p == PrepareMetrics(m) IN
         IF p.exc # "none" THEN [exc |-> p.exc, ops |-> <<>>]
         ELSE [exc |-> "none",
               ops |-> LogMetricsOps(p.out,
                           Join(<<base_namespace, runner.loader_key, ScopeStr(scope)>>),
                           runner.epoch_step)]
    ELSE IF scope = "epoch" /\ log_epoch_metrics
    THEN IF ~HasKey(m, StrEpochKey) THEN [exc |-> "KeyError", ops |-> <<>>]
         ELSE LET p == PrepareMetrics(Get(m, StrEpochKey)) IN
              IF p.exc # "none" THEN [exc |-> p.exc, ops |-> <<>>]
              ELSE IF p.out # <<>>
              THEN [exc |-> "none",
                    ops |-> LogMetricsOps(p.out, Join(<<base_namespace, ScopeStr(scope)>>),
                                          runner.epoch_step)]
              ELSE [exc |-> "none", ops |-> <<>>]
    ELSE IF scope = "experiment" \/ scope = "None"
    THEN [exc |-> "none", ops |-> LogMetricsOps(m, base_namespace, 0)]
    ELSE [exc |-> "none", ops |-> <<>>]

Unbound == <<"<unbound>">>

\* a faulty ArtifactPath: batch scope addresses the loader-level path, as
\* log_image does
ArtifactPathBatchAsLoader(scope, runner, tag) ==
    IF scope \in {"batch", "loader"}
    THEN Join(<<base_namespace, StrArtifacts,
                StrEpochDash \o Fmt04d(runner.epoch_step),
                StrLoaderDash \o runner.loader_key, tag>>)
    ELSE IF scope = "epoch"
    THEN Join(<<base_namespace, StrArtifacts,
                StrEpochDash \o Fmt04d(runner.epoch_step), tag>>)
    ELSE IF scope = "experiment" \/ scope = "None"
    THEN Join(<<base_namespace, StrArtifacts, tag>>)
    ELSE Unbound

\* the path log_artifact builds; Unbound when no branch assigns neptune_path
ArtifactPath(scope, runner, tag) ==
    IF scope = "batch"
    THEN Join(<<base_namespace, StrArtifacts,
                StrEpochDash \o Fmt04d(runner.epoch_step),
                StrLoaderDash \o runner.loader_key,
                StrBatchDash \o Fmt04d(runner.batch_step), tag>>)
    ELSE IF scope = "loader"
    THEN Join(<<base_namespace, StrArtifacts,
                StrEpochDash \o Fmt04d(runner.epoch_step),
                StrLoaderDash \o runner.loader_key, tag>>)
    ELSE IF scope = "epoch"
    THEN Join(<<base_namespace, StrArtifacts,
                StrEpochDash \o Fmt04d(runner.epoch_step), tag>>)
    ELSE IF scope = "experiment" \/ scope = "None"
    THEN Join(<<base_namespace, StrArtifacts, tag>>)
    ELSE Unbound

\* the path log_image builds
ImagePath(scope, runner, tag) ==
    IF scope \in {"batch", "loader"}
    THEN Join(<<base_namespace, StrImages,
                StrEpochDash \o Fmt04d(runner.epoch_step),
                StrLoaderDash \o runner.loader_key, tag>>)
    ELSE IF scope = "epoch"
    THEN Join(<<base_namespace, StrImages,
                StrEpochDash \o Fmt04d(runner.epoch_step), tag>>)
    ELSE IF scope = "experiment" \/ scope = "None"
    THEN Join(<<base_namespace, StrImages, tag>>)
    ELSE Unbound

\* what NeptuneLogger.log_artifact does: the ValueError of the both-given check
\* is built and dropped, then the path is read and _log_artifact called
LogArtifactResult(tag, runner, artifact, path_to_artifact, scope) ==
    LET neptune_path == ArtifactPath(scope, runner, tag) IN
    IF neptune_path = Unbound THEN [exc |-> "UnboundLocalError", ops |-> <<>>]
    ELSE [exc |-> "none", ops |-> LogArtifactOps(artifact, path_to_artifact, neptune_path)]

\* what NeptuneLogger.log_image does
LogImageResult(tag, image, runner, scope) ==
    LET log_path == ImagePath(scope, runner, tag) IN
    IF log_path = Unbound THEN [exc |-> "UnboundLocalError", ops |-> <<>>]
    ELSE [exc |-> "none", ops |-> LogImageOps(image, log_path)]

LoggerIdle ==
    /\ log_batch_metrics = FALSE
    /\ log_epoch_metrics = FALSE
    /\ base_namespace = <<>>
    /\ call = NoCall
    /\ sent = <<>>

\* NeptuneLogger.__init__
LoggerStart ==
    /\ log_batch_metrics \in BOOLEAN
    /\ log_epoch_metrics \in BOOLEAN
    /\ base_namespace \in {StrExperiment, <<"n", "s">>}
    /\ call = NoCall
    /\ sent = <<>>

log_metrics ==
    \E scope \in Scopes, runner \in Runners :
      \E m \in MetricsArgs(scope) :
        LET r == LogMetricsResult(m, scope, runner) IN
        /\ call' = [NoCall EXCEPT !.op = "log_metrics", !.scope = scope,
                                  !.runner = runner, !.metrics = m, !.exc = r.exc]
        /\ sent' = r.ops
        /\ UNCHANGED <<log_batch_metrics, log_epoch_metrics, base_namespace, first>>

log_image ==
    \E scope \in Scopes, runner \in Runners, tag \in Tags :
        LET r == LogImageResult(tag, "image", runner, scope) IN
        /\ call' = [NoCall EXCEPT !.op = "log_image", !.scope = scope,
                                  !.runner = runner, !.tag = tag, !.exc = r.exc]
        /\ sent' = r.ops
        /\ UNCHANGED <<log_batch_metrics, log_epoch_metrics, base_namespace, first>>

log_artifact ==
    \E scope \in Scopes, runner \in Runners, tag \in Tags,
       artifact \in {"None", "object"}, path_to_artifact \in {"None", "file.bin"} :
        LET r == LogArtifactResult(tag, runner, artifact, path_to_artifact, scope) IN
        /\ call' = [NoCall EXCEPT !.op = "log_artifact", !.scope = scope,
                                  !.runner = runner, !.tag = tag,
                                  !.artifact = artifact,
                                  !.path_to_artifact = path_to_artifact,
                                  !.exc = r.exc]
        /\ sent' = r.ops
        /\ UNCHANGED <<log_batch_metrics, log_epoch_metrics, base_namespace, first>>

NextLogger ==
    \/ log_metrics /\ UNCHANGED <<pmVars, envVars, codeVars, cmpVars>>
    \/ log_image /\ UNCHANGED <<pmVars, envVars, codeVars, cmpVars>>
    \/ log_artifact /\ UNCHANGED <<pmVars, envVars, codeVars, cmpVars>>

-----------------------------------------------------------------------------
(* _get_environment_vars *)

\* how one subprocess.check_output call ends
QueryOutcomes == {"ok", "CalledProcessError", "FileNotFoundError"}

\* the three git queries in order; a query after a failed one is never run
GitRuns ==
    { q \in [1..3 -> QueryOutcomes \cup {"notrun"}] :
        /\ q[1] # "notrun"
        /\ \A i \in 2..3 : (q[i] = "notrun") <=> (q[i - 1] # "ok") }

\* a faulty GitCaught: a missing executable is not caught
GitCaughtCalledProcessErrorOnly == {"CalledProcessError"}
\* the exceptions the try block around the git queries catches
GitCaught == {"CalledProcessError", "FileNotFoundError"}

\* os.environ: which of the three variables read are set
Environs == SUBSET {"CONDA_DEFAULT_ENV", "USER", "PWD"}

\* os.environ.get(name, "")
EnvironGet(environ, name) ==
    IF name \in environ THEN [type |-> "str", v |-> "$" \o name]
    ELSE [type |-> "str", v |-> ""]

\* _decode_dict: bytes values are decoded, every other value is kept
DecodeDict(dictionary) ==
    [k \in DOMAIN dictionary |->
        IF dictionary[k].type = "bytes"
        THEN [dictionary[k] EXCEPT !.type = "str"]
        ELSE dictionary[k]]

\* the keys of result before the git queries
HostFacts(environ) ==
    [k \in {"python_version", "conda_environment", "creation_time", "sysname",
            "nodename", "release", "version", "architecture", "user", "path"} |->
        CASE k = "conda_environment" -> EnvironGet(environ, "CONDA_DEFAULT_ENV")
          [] k = "user"              -> EnvironGet(environ, "USER")
          [] k = "path"              -> EnvironGet(environ, "PWD")
          [] OTHER                   -> [type |-> "str", v |-> k]]

\* the git dict built when the three queries returned
GitDict ==
    [k \in {"branch", "local_commit", "origin_commit"} |->
        IF k = "branch" THEN [type |-> "str", v |-> "branch"]
        ELSE [type |-> "bytes", v |-> k]]

\* the first git query that did not return, 0 when all three returned
FirstFailed(q) ==
    IF \A i \in 1..3 : q[i] = "ok" THEN 0
    ELSE CHOOSE i \in 1..3 : q[i] \notin {"ok", "notrun"} /\ \A j \in 1..(i - 1) : q[j] = "ok"

\* _get_environment_vars: [exc, result]
GetEnvironmentVars(environ, q) ==
    LET result == HostFacts(environ)
        f      == FirstFailed(q)
    IN  IF f = 0
        THEN [exc |-> "none",
              result |-> DecodeDict(
                  [k \in DOMAIN result \cup {"git"} |->
                      IF k = "git" THEN [type |-> "dict", v |-> DecodeDict(GitDict)]
                      ELSE result[k]])]
        ELSE IF q[f] \in GitCaught
        THEN [exc |-> "none", result |-> DecodeDict(result)]
        ELSE [exc |-> q[f], result |-> <<>>]

NoProbe == [pc |-> "idle", environ |-> {}, git |-> <<>>, exc |-> "none", result |-> <<>>]

ProbeIdle == probe = NoProbe

\* a host: its environment variables and how its git queries end
ProbeStart ==
    \E environ \in Environs, q \in GitRuns :
        probe = [NoProbe EXCEPT !.pc = "host", !.environ = environ, !.git = q]

get_environment_vars ==
    /\ probe.pc = "host"
    /\ LET e == GetEnvironmentVars(probe.environ, probe.git) IN
       probe' = [probe EXCEPT !.pc = "returned", !.exc = e.exc, !.result = e.result]
    /\ UNCHANGED <<config_dir, env_call>>

NextProbe ==
    get_environment_vars /\ UNCHANGED <<pmVars, lgVars, codeVars, cmpVars>>

-----------------------------------------------------------------------------
(* _list_pip_packages, _list_conda_packages, dump_environment *)

\* the newline character
LF == "LF"

\* bytes.strip(): leading and trailing whitespace removed
RECURSIVE LStrip(_)
LStrip(s) ==
    IF s # <<>> /\ Head(s) \in {LF, " "} THEN LStrip(Tail(s)) ELSE s
RECURSIVE RStrip(_)
RStrip(s) ==
    IF s # <<>> /\ s[Len(s)] \in {LF, " "} THEN RStrip(SubSeq(s, 1, Len(s) - 1)) ELSE s
Strip(s) == RStrip(LStrip(s))

\* str.replace("\n", "\n\n")
RECURSIVE DoubleNewlines(_)
DoubleNewlines(s) ==
    IF s = <<>> THEN <<>>
    ELSE (IF Head(s) = LF THEN <<LF, LF>> ELSE <<Head(s)>>) \o DoubleNewlines(Tail(s))

\* what a listing command prints when it runs: a blank line, or packages
PipOutputs   == { <<LF>>, <<"p", "=", "=", "1", LF, "q", "=", "=", "2", LF>> }
CondaOutputs == { <<LF>>, <<"c", "=", "1", LF, "d", "=", "2", LF>> }

\* a listing command either raises or prints
PipRuns   == {[raised |-> TRUE, out |-> <<>>]} \cup {[raised |-> FALSE, out |-> o] : o \in PipOutputs}
CondaRuns == {[raised |-> TRUE, out |-> <<>>]} \cup {[raised |-> FALSE, out |-> o] : o \in CondaOutputs}

\* the interpreter prefix: without conda-meta, or with it and a conda run
CondaHosts ==
    {[conda_meta_exists |-> FALSE, run |-> [raised |-> TRUE, out |-> <<>>]]}
    \cup {[conda_meta_exists |-> TRUE, run |-> r] : r \in CondaRuns}

\* the hosts dump_environment is run on: git answering all three queries, or none
DumpHosts ==
    { [environ |-> {"CONDA_DEFAULT_ENV", "USER", "PWD"}, git |-> <<"ok", "ok", "ok">>],
      [environ |-> {"USER", "PWD"}, git |-> <<"CalledProcessError", "notrun", "notrun">>] }

\* _list_pip_packages
ListPipPackages(run) == IF run.raised THEN <<>> ELSE Strip(run.out)

\* _list_conda_packages: conda is asked only inside a conda environment
ListCondaPackages(conda_meta_exists, run) ==
    IF conda_meta_exists THEN (IF run.raised THEN <<>> ELSE Strip(run.out)) ELSE <<>>

\* (IS_HYDRA_AVAILABLE, kind of the config argument)
ConfigArgs ==
    { <<FALSE, "None">>, <<FALSE, "dict">>,
      <<TRUE, "None">>, <<TRUE, "dict">>, <<TRUE, "DictConfig">> }

\* the configs_path argument, each entry a Path with its directory and name
ConfigsPaths == { <<>>, << [dir |-> "conf", name |-> "train.yml"] >> }

\* f written into a directory d (file name -> content)
WriteFile(d, f, content) ==
    [n \in DOMAIN d \cup {f} |-> IF n = f THEN content ELSE d[n]]

RECURSIVE WriteAll(_, _)
WriteAll(d, ws) ==
    IF ws = <<>> THEN d ELSE WriteAll(WriteFile(d, ws[1][1], ws[1][2]), Tail(ws))

\* whether dump_environment writes pip-packages.txt
WritesPipFile(pip_pkg) == TRUE
\* a faulty WritesCondaFile: the conda listing is written even when empty
WritesCondaFileAlways(conda_pkg) == TRUE
\* whether dump_environment writes conda-packages.txt
WritesCondaFile(conda_pkg) == conda_pkg # <<>>

\* the files dump_environment writes under config_dir, in order
DumpEnvironmentWrites(cfg, environment, pip_pkg, conda_pkg, configs_path) ==
    (IF cfg[1] /\ cfg[2] = "DictConfig"
     THEN << <<"config.yaml", [kind |-> "yaml", data |-> "config"]>> >> ELSE <<>>)
    \o << <<"_environment.json", [kind |-> "json", data |-> environment]>> >>
    \o (IF cfg[2] # "None"
        THEN << <<"_config.json", [kind |-> "json", data |-> "config"]>> >> ELSE <<>>)
    \o (IF WritesPipFile(pip_pkg)
        THEN << <<"pip-packages.txt", [kind |-> "text", data |-> pip_pkg]>> >> ELSE <<>>)
    \o (IF WritesCondaFile(conda_pkg)
        THEN << <<"conda-packages.txt", [kind |-> "text", data |-> conda_pkg]>> >> ELSE <<>>)
    \o [i \in 1..Len(configs_path) |->
           <<configs_path[i].name, [kind |-> "copy", data |-> configs_path[i]]>>]

\* the texts dump_environment adds to the SummaryWriter, in order
DumpEnvironmentTexts(cfg, pip_pkg, conda_pkg) ==
    (IF cfg[2] # "None" THEN << <<"_config", "config">> >> ELSE <<>>)
    \o << <<"_environment", "environment">> >>
    \o << <<"pip-packages", DoubleNewlines(pip_pkg)>> >>
    \o (IF conda_pkg # <<>>
        THEN << <<"conda-packages", DoubleNewlines(conda_pkg)>> >> ELSE <<>>)

NoFiles == [n \in {} |-> 0]

NoEnvCall ==
    [op |-> "none", exc |-> "none", environ |-> {}, git |-> <<>>,
     environment |-> <<>>, pip_pkg |-> <<>>, conda_pkg |-> <<>>,
     written |-> {}, texts |-> <<>>]

EnvIdle ==
    /\ config_dir = NoFiles
    /\ env_call = NoEnvCall

\* a fresh log directory
EnvStart ==
    /\ config_dir = NoFiles
    /\ env_call = NoEnvCall

dump_environment ==
    \E cfg \in ConfigArgs, configs_path \in ConfigsPaths, host \in DumpHosts,
       pip \in PipRuns, conda \in CondaHosts :
        LET e         == GetEnvironmentVars(host.environ, host.git)
            pip_pkg   == ListPipPackages(pip)
            conda_pkg == ListCondaPackages(conda.conda_meta_exists, conda.run)
            ws        == IF e.exc = "none"
                         THEN DumpEnvironmentWrites(cfg, e.result, pip_pkg, conda_pkg,
                                                    configs_path)
                         ELSE IF cfg[1] /\ cfg[2] = "DictConfig"
                         THEN << <<"config.yaml", [kind |-> "yaml", data |-> "config"]>> >>
                         ELSE <<>>
        IN  /\ config_dir' = WriteAll(config_dir, ws)
            /\ env_call' =
                 [op |-> "dump_environment", exc |-> e.exc, environ |-> host.environ,
                  git |-> host.git, environment |-> e.result,
                  pip_pkg |-> pip_pkg, conda_pkg |-> conda_pkg,
                  written |-> {ws[i][1] : i \in 1..Len(ws)},
                  texts |-> IF e.exc = "none"
                            THEN DumpEnvironmentTexts(cfg, pip_pkg, conda_pkg)
                            ELSE <<>>]
            /\ UNCHANGED probe

NextEnv ==
    dump_environment /\ UNCHANGED <<pmVars, lgVars, codeVars, cmpVars>>

-----------------------------------------------------------------------------
(* os.path on character sequences (POSIX) *)

\* s.split("/")
RECURSIVE SplitSlash(_)
SplitSlash(s) ==
    IF \A i \in 1..Len(s) : s[i] # "/" THEN <<s>>
    ELSE LET i == CHOOSE i \in 1..Len(s) : s[i] = "/" /\ \A j \in 1..(i - 1) : s[j] # "/"
         IN  <<SubSeq(s, 1, i - 1)>> \o SplitSlash(SubSeq(s, i + 1, Len(s)))

\* os.path.normpath's pass over the components of an absolute path
RECURSIVE NormComps(_, _)
NormComps(comps, acc) ==
    IF comps = <<>> THEN acc
    ELSE LET c == Head(comps) IN
         IF c = <<>> \/ c = <<".">> THEN NormComps(Tail(comps), acc)
         ELSE IF c = <<".", ".">>
         THEN NormComps(Tail(comps),
                        IF acc = <<>> THEN acc ELSE SubSeq(acc, 1, Len(acc) - 1))
         ELSE NormComps(Tail(comps), Append(acc, c))

\* the working directory of the process
Cwd == <<"/", "w">>

\* os.path.abspath(p)
Abspath(p) ==
    LET full == IF p # <<>> /\ p[1] = "/" THEN p ELSE Cwd \o <<"/">> \o p
    IN  <<"/">> \o Join(NormComps(SplitSlash(full), <<>>))

\* os.path.basename(p): what follows the last "/"
Basename(p) ==
    IF \A i \in 1..Len(p) : p[i] # "/" THEN p
    ELSE LET i == CHOOSE i \in 1..Len(p) : p[i] = "/" /\ \A j \in (i + 1)..Len(p) : p[j] # "/"
         IN  SubSeq(p, i + 1, Len(p))

-----------------------------------------------------------------------------
(* _tricky_dir_copy, dump_code *)

StrCatalyst == <<"c", "a", "t", "a", "l", "y", "s", "t">>

\* the installed framework package, dirname(abspath(__file__)) + "/../"
FrameworkDir == <<"/", "l", "i", "b", "/">> \o StrCatalyst

\* expdir arguments: "exp", "exp/", "lab/exp//", "catalyst", "/w/lab/catalyst/",
\* "gone" (no such directory), "./run", "lab/../run/"
ExpDirs ==
    { <<".", "/", "r", "u", "n">>,
      <<"l", "a", "b", "/", ".", ".", "/", "r", "u", "n", "/">>,
      <<"e", "x", "p">>,
      <<"e", "x", "p", "/">>,
      <<"l", "a", "b", "/", "e", "x", "p", "/", "/">>,
      StrCatalyst,
      <<"/", "w", "/", "l", "a", "b", "/">> \o StrCatalyst \o <<"/">>,
      <<"g", "o", "n", "e">> }

\* the directories that exist outside the log directory
SourceDirs ==
    { FrameworkDir,
      <<"/", "w", "/", "r", "u", "n">>,
      <<"/", "w", "/", "e", "x", "p">>,
      <<"/", "w", "/", "l", "a", "b", "/", "e", "x", "p">>,
      <<"/", "w", "/">> \o StrCatalyst,
      <<"/", "w", "/", "l", "a", "b", "/">> \o StrCatalyst }

\* what a directory entry holds
NoEntry      == [kind |-> "absent", tree |-> <<>>]
FileEntry    == [kind |-> "file", tree |-> <<>>]
\* a directory whose content is a full copy of the tree at abs
TreeOf(abs)  == [kind |-> "dir", tree |-> abs]
\* a directory with content of its own
StaleDir     == [kind |-> "dir", tree |-> <<"s", "t", "a", "l", "e">>]

Entry(d, name) == IF name \in DOMAIN d THEN d[name] ELSE NoEntry

\* _tricky_dir_copy(dir_from, dir_to), dir_to = <logdir>/code/<name>: [exc, dir]
TrickyDirCopy(d, dir_from, name) ==
    IF Entry(d, name).kind = "file"
    THEN [exc |-> "FileExistsError", dir |-> d]                  \* os.makedirs
    ELSE IF dir_from \notin SourceDirs
    THEN [exc |-> "FileNotFoundError",                           \* shutil.copytree
          dir |-> [n \in DOMAIN d \ {name} |-> d[n]]]            \* after shutil.rmtree
    ELSE [exc |-> "none", dir |-> WriteFile(d, name, TreeOf(dir_from))]

\* the destination folder name dump_code derives from expdir
NewExpdir(expdir) ==
    LET stripped == IF EndsWith(expdir, <<"/">>)
                    THEN SubSeq(expdir, 1, Len(expdir) - 1) ELSE expdir
    IN  Basename(Abspath(stripped))

\* the directory dump_code copies for expdir
OldExpdir(expdir) ==
    LET stripped == IF EndsWith(expdir, <<"/">>)
                    THEN SubSeq(expdir, 1, Len(expdir) - 1) ELSE expdir
    IN  Abspath(stripped)

\* dump_code(logdir, expdir) on <logdir>/code = d: [exc, dir]; expdir "None" for None
DumpCode(d, expdir) ==
    LET pro == TrickyDirCopy(d, FrameworkDir, StrCatalyst) IN
    IF pro.exc # "none" \/ expdir = <<"None">> THEN pro
    ELSE TrickyDirCopy(pro.dir, OldExpdir(expdir), NewExpdir(expdir))

NoCodeCall == [op |-> "none", expdir |-> <<>>, exc |-> "none"]

CodeIdle ==
    /\ code_dir = NoFiles
    /\ code_call = NoCodeCall

\* the names <logdir>/code may already hold something under
CodeNames == {StrCatalyst, <<"e", "x", "p">>, <<"r", "u", "n">>}

\* a log directory: fresh, or left by an earlier run
CodeStart ==
    /\ code_dir \in UNION { [ns -> {FileEntry, StaleDir}] : ns \in SUBSET CodeNames }
    /\ code_call = NoCodeCall

dump_code ==
    \E expdir \in ExpDirs \cup {<<"None">>} :
        LET r == DumpCode(code_dir, expdir) IN
        /\ code_dir' = r.dir
        /\ code_call' = [op |-> "dump_code", expdir |-> expdir, exc |-> r.exc]

NextCode ==
    dump_code /\ UNCHANGED <<pmVars, lgVars, envVars, cmpVars>>

-----------------------------------------------------------------------------
(* Two log_artifact or log_image calls on one logger, to compare their paths *)

\* the runners of the compared calls: steps of one to five digits
StepRunners ==
    { [epoch_step |-> e, loader_key |-> <<"t", "r", "a", "i", "n">>,
       batch_step |-> b, sample_step |-> b] :
        e \in {3, 12, 9999, 10000}, b \in {7, 9999, 10000} }

\* what log_artifact is given to upload: an object, or a file path
Uploads == { <<"object", "None">>, <<"None", "file.bin">> }

NoFirst == [call |-> NoCall, sent |-> <<>>]

CompareIdle == first = NoFirst

\* the call op(tag, runner, scope) with upload u: the call record and the
\* backend operations it issues
LoggedCall(op, scope, runner, tag, u) ==
    LET r == IF op = "log_artifact"
             THEN LogArtifactResult(tag, runner, u[1], u[2], scope)
             ELSE LogImageResult(tag, "image", runner, scope)
    IN  [call |-> [NoCall EXCEPT !.op = op, !.scope = scope, !.runner = runner,
                                 !.tag = tag, !.exc = r.exc,
                                 !.artifact = IF op = "log_artifact" THEN u[1] ELSE "None",
                                 !.path_to_artifact =
                                     IF op = "log_artifact" THEN u[2] ELSE "None"],
         sent |-> r.ops]

\* a first log_artifact or log_image call on the logger
first_call ==
    /\ call.op = "none"
    /\ \E op \in {"log_artifact", "log_image"}, scope \in Scopes,
          runner \in StepRunners, tag \in Tags :
          LET c == LoggedCall(op, scope, runner, tag, <<"object", "None">>) IN
          /\ call' = c.call
          /\ sent' = c.sent
    /\ UNCHANGED <<log_batch_metrics, log_epoch_metrics, base_namespace, first>>

\* a second call of the same method, scope and tag, at any step
second_call ==
    /\ call.op # "none"
    /\ first = NoFirst
    /\ \E runner \in StepRunners, u \in Uploads :
          LET c == LoggedCall(call.op, call.scope, runner, call.tag, u) IN
          /\ call.op = "log_image" => u = <<"object", "None">>
          /\ first' = [call |-> call, sent |-> sent]
          /\ call' = c.call
          /\ sent' = c.sent
    /\ UNCHANGED <<log_batch_metrics, log_epoch_metrics, base_namespace>>

NextCompare ==
    \/ first_call /\ UNCHANGED <<pmVars, envVars, codeVars>>
    \/ second_call /\ UNCHANGED <<pmVars, envVars, codeVars>>

-----------------------------------------------------------------------------
(* Specifications *)

\* a NeptuneLogger and two calls of log_artifact or log_image on it
InitCompare == PrepareIdle /\ LoggerStart /\ ProbeIdle /\ EnvIdle /\ CodeIdle /\ CompareIdle
SpecCompare == InitCompare /\ [][NextCompare]_vars

\* _prepare_metrics on every batch
InitPrepare == PrepareStart /\ LoggerIdle /\ ProbeIdle /\ EnvIdle /\ CodeIdle /\ CompareIdle
SpecPrepare == InitPrepare /\ [][NextPrepare]_vars

\* a NeptuneLogger and the calls made on it
InitLogger == PrepareIdle /\ LoggerStart /\ ProbeIdle /\ EnvIdle /\ CodeIdle /\ CompareIdle
SpecLogger == InitLogger /\ [][NextLogger]_vars

\* _get_environment_vars on every host
InitProbe == PrepareIdle /\ LoggerIdle /\ ProbeStart /\ EnvIdle /\ CodeIdle /\ CompareIdle
SpecProbe == InitProbe /\ [][NextProbe]_vars

\* dump_environment, called on a log directory any number of times
InitEnv == PrepareIdle /\ LoggerIdle /\ ProbeIdle /\ EnvStart /\ CodeIdle /\ CompareIdle
SpecEnv == InitEnv /\ [][NextEnv]_vars

\* dump_code, called on a log directory any number of times
InitCode == PrepareIdle /\ LoggerIdle /\ ProbeIdle /\ EnvIdle /\ CodeStart /\ CompareIdle
SpecCode == InitCode /\ [][NextCode]_vars

-----------------------------------------------------------------------------
(* Properties of _prepare_metrics, under SpecPrepare *)

PrepareReturned == pm_pc \in {"once", "twice"} /\ res1.exc = "none"

\* C1: whenever _prepare_metrics returns, no key of the returned mapping is a
\* literal string prefix of another, distinct key of it.
C1_NoPrefixAmongReturnedKeys ==
    PrepareReturned =>
        \A k, j \in KeysOf(res1.out) : k # j => ~StartsWith(j, k)

\* C2: _prepare_metrics is idempotent: applied to its own output it returns,
\* and returns the same mapping (same keys, same values).
C2_PrepareIdempotent ==
    pm_pc = "twice" =>
        /\ res2.exc = "none"
        /\ AsMap(res2.out) = AsMap(res1.out)

\* the keys an input key k may be found under in the output
RenamesOf(k) == {k, k \o SufVal, k \o SufUndVal}

\* C3: _prepare_metrics loses no information: the output has as many entries
\* as the input, and the input entries can be matched one to one with output
\* keys, each entry to its own key, its key plus "/val" or its key plus "_val",
\* holding the entry's value (so no rename overwrites another entry).
C3_NoInformationLost ==
    PrepareReturned =>
        /\ Len(res1.out) = Len(metrics)
        /\ \E f \in [1..Len(metrics) -> KeysOf(res1.out)] :
              /\ \A i, j \in 1..Len(metrics) : i # j => f[i] # f[j]
              /\ \A i \in 1..Len(metrics) :
                    /\ f[i] \in RenamesOf(metrics[i][1])
                    /\ Get(res1.out, f[i]) = metrics[i][2]

\* the names p such that p/std is an input key and p/val is not
UnpairedStd ==
    { SubSeq(k, 1, Len(k) - Len(SufStd)) :
        k \in {x \in KeysOf(metrics) :
                 /\ EndsWith(x, SufStd)
                 /\ ~HasKey(metrics, SubSeq(x, 1, Len(x) - Len(SufStd)) \o SufVal)} }

\* C4: for every input key p/std with no input key p/val: when p is an input
\* key, _prepare_metrics returns and p's value is kept under p/val (or under
\* the name the conflict pass then gives p/val); when p is not an input key,
\* _prepare_metrics still returns a mapping, holding every input value under
\* its key or a rename of it.
C4_StdValPairing ==
    pm_pc \in {"once", "twice"} =>
        \A p \in UnpairedStd :
            IF HasKey(metrics, p)
            THEN /\ res1.exc = "none"
                 /\ \E c \in {p \o SufVal, p \o SufVal \o SufUndVal} :
                       HasKey(res1.out, c) /\ Get(res1.out, c) = Get(metrics, p)
            ELSE /\ res1.exc = "none"
                 /\ \A i \in 1..Len(metrics) : \E c \in RenamesOf(metrics[i][1]) :
                       HasKey(res1.out, c) /\ Get(res1.out, c) = metrics[i][2]

-----------------------------------------------------------------------------
(* Properties of NeptuneLogger, under SpecLogger *)

KnownScopes == {"batch", "loader", "epoch", "experiment", "None"}

\* C5: log_artifact called with both artifact and path_to_artifact supplied is
\* rejected: a validation error reaches the caller and nothing is uploaded
\* (stated for the calls whose scope is one log_artifact knows).
C5_BothSuppliedRejected ==
    (/\ call.op = "log_artifact"
     /\ call.scope \in KnownScopes
     /\ call.artifact # "None"
     /\ call.path_to_artifact # "None")
    => (call.exc = "ValueError" /\ sent = <<>>)

\* C6: a log_metrics, log_image or log_artifact call whose scope is none of
\* batch, loader, epoch, experiment, None returns normally without raising and
\* makes no backend write.
C6_UnknownScopeSilentNoOp ==
    (call.op \in {"log_metrics", "log_image", "log_artifact"}
        /\ call.scope \notin KnownScopes)
    => (call.exc = "none" /\ sent = <<>>)

\* C7: after any sequence of calls, the latest log_metrics call made no append
\* when it was at batch scope with log_batch_metrics false, or at loader or
\* epoch scope with log_epoch_metrics false; at experiment scope it made one
\* append per metric key, whatever the two toggles are.
C7_ToggleGating ==
    call.op = "log_metrics" =>
        /\ (call.scope = "batch" /\ ~log_batch_metrics) => sent = <<>>
        /\ (call.scope \in {"loader", "epoch"} /\ ~log_epoch_metrics) => sent = <<>>
        /\ call.scope = "experiment" =>
              /\ call.exc = "none"
              /\ Len(sent) = Len(call.metrics)
              /\ \A i \in 1..Len(sent) :
                    sent[i].op = "append" /\ sent[i].key = call.metrics[i][1]

\* C7 witness: a batch-scope log_metrics call with metrics to log, the batch
\* toggle off and the epoch toggle on, after which nothing was sent.
C7_Witness ==
    /\ call.op = "log_metrics"
    /\ call.scope = "batch"
    /\ call.metrics # <<>>
    /\ ~log_batch_metrics
    /\ log_epoch_metrics
    /\ sent = <<>>

-----------------------------------------------------------------------------
(* Properties of _get_environment_vars, under SpecProbe *)

NonVcsKeys ==
    {"python_version", "creation_time", "sysname", "nodename", "release",
     "version", "architecture", "user", "path"}

\* C10: _get_environment_vars returns on every host; the snapshot has the nine
\* non-VCS keys; it has "git" if and only if the three git queries all
\* succeeded, and then "git" has branch, local_commit and origin_commit.
C10_SnapshotKeys ==
    probe.pc = "returned" =>
        /\ probe.exc = "none"
        /\ NonVcsKeys \subseteq DOMAIN probe.result
        /\ ("git" \in DOMAIN probe.result) <=> (\A i \in 1..3 : probe.git[i] = "ok")
        /\ "git" \in DOMAIN probe.result =>
              DOMAIN probe.result["git"].v = {"branch", "local_commit", "origin_commit"}

\* C10 witness: the branch and local-commit queries succeeded, the
\* origin-commit query failed, and the snapshot returned has no "git".
C10_Witness ==
    /\ probe.pc = "returned"
    /\ probe.git = <<"ok", "ok", "CalledProcessError">>
    /\ probe.exc = "none"
    /\ "git" \notin DOMAIN probe.result

-----------------------------------------------------------------------------
(* Properties of dump_environment, under SpecEnv *)

\* C8: after dump_environment, pip-packages.txt exists under config_dir only
\* when the pip listing was non-empty, and conda-packages.txt only when the
\* conda listing was non-empty.
C8_ManifestOnlyWhenListed ==
    env_call.op = "dump_environment" =>
        /\ "pip-packages.txt" \in DOMAIN config_dir => env_call.pip_pkg # <<>>
        /\ "conda-packages.txt" \in DOMAIN config_dir => env_call.conda_pkg # <<>>

\* C8 amended: dump_environment always writes pip-packages.txt, holding the pip
\* listing (empty when the listing failed or was empty); it writes
\* conda-packages.txt, holding the conda listing, exactly when that listing
\* was non-empty.
C8_PipAlwaysCondaWhenListed ==
    (env_call.op = "dump_environment" /\ env_call.exc = "none") =>
        /\ "pip-packages.txt" \in env_call.written
        /\ config_dir["pip-packages.txt"].data = env_call.pip_pkg
        /\ ("conda-packages.txt" \in env_call.written) <=> (env_call.conda_pkg # <<>>)
        /\ "conda-packages.txt" \in env_call.written =>
              config_dir["conda-packages.txt"].data = env_call.conda_pkg

\* C8 witness: on a log directory with no conda-packages.txt, both listings
\* came back empty; an empty pip-packages.txt is there, no conda-packages.txt.
C8_Witness ==
    /\ env_call.op = "dump_environment"
    /\ env_call.pip_pkg = <<>>
    /\ env_call.conda_pkg = <<>>
    /\ "pip-packages.txt" \in DOMAIN config_dir
    /\ config_dir["pip-packages.txt"].data = <<>>
    /\ "conda-packages.txt" \notin DOMAIN config_dir

-----------------------------------------------------------------------------
(* Properties of dump_code, under SpecCode *)

\* the last path segment of a path as written: its last non-empty component
LastSegment(path) ==
    LET comps == SelectSeq(SplitSlash(path), LAMBDA c : c # <<>>)
    IN  comps[Len(comps)]

\* C9: after dump_code returned with an expdir given, code/catalyst is a full
\* copy of exactly the framework tree and code/<last segment of expdir> is a
\* full copy of exactly the experiment directory, whatever the destinations
\* held before and whatever the experiment directory is named.
C9_BothTreesCopied ==
    (/\ code_call.op = "dump_code"
     /\ code_call.exc = "none"
     /\ code_call.expdir # <<"None">>)
    => /\ Entry(code_dir, StrCatalyst) = TreeOf(FrameworkDir)
       /\ Entry(code_dir, LastSegment(code_call.expdir))
             = TreeOf(Abspath(code_call.expdir))

-----------------------------------------------------------------------------
(* Properties of the artifact and image paths, under SpecCompare *)

FourScopes == {"experiment", "epoch", "loader", "batch"}

\* a step written with at least four decimal digits, zeros in front
ZeroPadded4(n) ==
    IF Len(Digits(n)) > 4 THEN Digits(n)
    ELSE <<DigitChar((n \div 1000) % 10), DigitChar((n \div 100) % 10),
           DigitChar((n \div 10) % 10), DigitChar(n % 10)>>

\* the artifact path as documented, segment by segment
DocumentedArtifactPath(base, scope, runner, tag) ==
    LET sep    == <<"/">>
        root   == base \o sep \o <<"_", "a", "r", "t", "i", "f", "a", "c", "t", "s">>
        epoch  == <<"e", "p", "o", "c", "h", "-">> \o ZeroPadded4(runner.epoch_step)
        loader == <<"l", "o", "a", "d", "e", "r", "-">> \o runner.loader_key
        batch  == <<"b", "a", "t", "c", "h", "-">> \o ZeroPadded4(runner.batch_step)
    IN  CASE scope = "experiment" -> root \o sep \o tag
          [] scope = "epoch"      -> root \o sep \o epoch \o sep \o tag
          [] scope = "loader"     -> root \o sep \o epoch \o sep \o loader \o sep \o tag
          [] scope = "batch"      -> root \o sep \o epoch \o sep \o loader \o sep
                                        \o batch \o sep \o tag

\* C11: a log_artifact call at one of the four scopes uploads exactly once, to
\* the '/'-join of base, "_artifacts", the epoch-EEEE / loader-<key> /
\* batch-BBBB segments of its scope and the tag, the steps zero-padded to four
\* digits; and two calls with the same base, scope, steps, loader key and tag
\* upload to the same path, whatever they upload.
C11_ArtifactPathAsDocumented ==
    /\ (call.op = "log_artifact" /\ call.scope \in FourScopes)
        => /\ call.exc = "none"
           /\ Len(sent) = 1
           /\ sent[1].op = "upload"
           /\ sent[1].path = DocumentedArtifactPath(base_namespace, call.scope,
                                                    call.runner, call.tag)
    /\ (/\ first.call.op = "log_artifact"
        /\ call.scope \in FourScopes
        /\ first.call.scope = call.scope
        /\ first.call.tag = call.tag
        /\ first.call.runner = call.runner)
        => first.sent[1].path = sent[1].path

\* a pickled object, then a file, uploaded at batch scope with the same runner:
\* both went to ns/_artifacts/epoch-0003/loader-train/batch-0007/sample
C11_Witness ==
    /\ first.call.op = "log_artifact"
    /\ call.scope = "batch"
    /\ first.call.runner = call.runner
    /\ call.path_to_artifact = "file.bin"
    /\ first.sent[1].file = <<"pickle", "object">>
    /\ sent[1].file = <<"path", "file.bin">>
    /\ first.sent[1].path = sent[1].path
    /\ sent[1].path =
          <<"n", "s", "/", "_", "a", "r", "t", "i", "f", "a", "c", "t", "s", "/",
            "e", "p", "o", "c", "h", "-", "0", "0", "0", "3", "/",
            "l", "o", "a", "d", "e", "r", "-", "t", "r", "a", "i", "n", "/",
            "b", "a", "t", "c", "h", "-", "0", "0", "0", "7", "/",
            "s", "a", "m", "p", "l", "e">>

\* the code point of a character of a path: '-' to '9', '_', 'a' to 'z'
CharOrd(c) ==
    LET low   == <<"-", ".", "/", "0", "1", "2", "3", "4", "5", "6", "7", "8", "9">>
        lower == <<"a", "b", "c", "d", "e", "f", "g", "h", "i", "j", "k", "l", "m",
                   "n", "o", "p", "q", "r", "s", "t", "u", "v", "w", "x", "y", "z">>
    IN  IF \E i \in DOMAIN low : low[i] = c
        THEN 44 + (CHOOSE i \in DOMAIN low : low[i] = c)
        ELSE IF c = "_" THEN 95
        ELSE 96 + (CHOOSE i \in DOMAIN lower : lower[i] = c)

\* s < t as strings: s is a proper prefix of t, or at the first position where
\* they differ the character of s has the smaller code point
LexLess(s, t) ==
    \E k \in 0..Len(s) :
        /\ k <= Len(t)
        /\ \A i \in 1..k : s[i] = t[i]
        /\ \/ k = Len(s) /\ k < Len(t)
           \/ k < Len(s) /\ k < Len(t) /\ CharOrd(s[k + 1]) < CharOrd(t[k + 1])

\* both calls were made with the same thing to log and each addressed a path
BothAddressed ==
    /\ first.call.op # "none"
    /\ first.call.artifact = call.artifact
    /\ first.call.path_to_artifact = call.path_to_artifact
    /\ first.sent # <<>>
    /\ sent # <<>>

\* the two calls differ in epoch_step alone, the earlier below the later, and
\* their paths hold the epoch step
EpochStepAdvanced ==
    /\ BothAddressed
    /\ call.scope \in {"epoch", "loader", "batch"}
    /\ first.call.runner.batch_step = call.runner.batch_step
    /\ first.call.runner.epoch_step < call.runner.epoch_step

\* the two calls differ in batch_step alone, the earlier below the later, and
\* their paths hold the batch step: artifacts at batch scope
BatchStepAdvanced ==
    /\ BothAddressed
    /\ call.op = "log_artifact"
    /\ call.scope = "batch"
    /\ first.call.runner.epoch_step = call.runner.epoch_step
    /\ first.call.runner.batch_step < call.runner.batch_step

\* C12 as stated: for any two steps a < b, the artifact or image path built
\* with epoch_step a (respectively batch_step a) sorts strictly before, as a
\* string, the path built with step b and all other inputs equal.
C12_PathsSortChronologically ==
    (EpochStepAdvanced \/ BatchStepAdvanced)
    => LexLess(first.sent[1].path, sent[1].path)

\* C12 amended: for any two steps a < b of at most four digits, the artifact
\* or image path built with epoch_step a (respectively the artifact path built
\* with batch_step a) sorts strictly before, as a string, the path built with
\* step b and all other inputs equal.
C12_PathsSortUpToFourDigits ==
    /\ (EpochStepAdvanced /\ Len(Digits(call.runner.epoch_step)) <= 4)
        => LexLess(first.sent[1].path, sent[1].path)
    /\ (BatchStepAdvanced /\ Len(Digits(call.runner.batch_step)) <= 4)
        => LexLess(first.sent[1].path, sent[1].path)

\* an image logged at epoch scope in epoch 12 and again in epoch 9999: the
\* path .../epoch-0012/sample sorts before .../epoch-9999/sample
C12_Witness ==
    /\ EpochStepAdvanced
    /\ call.op = "log_image"
    /\ call.scope = "epoch"
    /\ first.call.runner.epoch_step = 12
    /\ call.runner.epoch_step = 9999
    /\ sent[1].op = "append_image"
    /\ LexLess(first.sent[1].path, sent[1].path)

=============================================================================
